---- MODULE Spec2Model ----
(***************************************************************************)
(* A model of ZodMockSchema (zod-mock-schema): the recursive generator     *)
(* generateFromSchema, the override merger and validator of generate,      *)
(* generateMany and seed, over a seedable random source.                   *)
(*                                                                         *)
(* Numbers are kept in fixed point: a number value n stands for n / Scale, *)
(* so that the float sampler and non-integer bounds can be told from the   *)
(* integer ones.  Strings are kept as their length and a content code.     *)
(***************************************************************************)
EXTENDS Integers, Sequences, FiniteSets, TLC

(* ------------------------------ bounds --------------------------------- *)
Scale == 2          \* fixed-point steps per unit of a number value
TapeLen == 2        \* period of a random source's stream
RawVals == 3        \* a raw draw is in 0 .. RawVals-1
MaxSeed == 3        \* seeds are 0 .. MaxSeed
MaxCount == 2       \* generateMany counts are 0 .. MaxCount
MaxLead == 1        \* calls one instance may be ahead of its twin
MaxCalls == 3       \* calls counted after a seed call
MaxDepth == 3       \* nested resolutions of a lazy node the call stack holds
YearSpan == 3       \* time units in the year that date.future / past span
DaySpan == 2        \* time units in the day that date.recent spans
MaxNest == 3        \* generate calls in progress at once on one instance

(* ------------------------- program constants --------------------------- *)
DEFAULT_SET_MIN_SIZE == 1
DEFAULT_SET_MAX_SIZE == 5
DEFAULT_ARRAY_MIN_LENGTH == 1
DEFAULT_ARRAY_MAX_LENGTH == 1
DEFAULT_BIGINT_MIN == 1
DEFAULT_BIGINT_MAX == 1000
DEFAULT_INT_MIN == 1
DEFAULT_INT_MAX == 1000
DEFAULT_FLOAT_MIN == 0
DEFAULT_FLOAT_MAX == 100
DEFAULT_STRING_MIN_LENGTH == 5
DEFAULT_STRING_MAX_LENGTH == 20
FLOAT_FORMATS == {"float", "double", "decimal", "float32", "float64"}
EFFECT_TYPE_TRANSFORM == "transform"
ZOD_TYPE_EFFECTS == "ZodEffects"

(* ------------------------------ values --------------------------------- *)
Undefined == [t |-> "undefined"]
Null == [t |-> "null"]
Num(n) == [t |-> "number", n |-> n]                  \* n is in 1/Scale units
IntV(k) == Num(k * Scale)
Str(len, c) == [t |-> "string", len |-> len, c |-> c]
Bool(b) == [t |-> "boolean", b |-> b]
Arr(items) == [t |-> "array", items |-> items]
Obj(f) == [t |-> "object", f |-> f]
Fn(v) == [t |-> "function", returns |-> v]           \* () => v
SetV(items) == [t |-> "set", items |-> items]        \* in insertion order
This(i) == [t |-> "instance", id |-> i]              \* a generator instance
BigIntV(n) == [t |-> "bigint", n |-> n]
DateV(ms) == [t |-> "date", ref |-> "epoch", ms |-> ms]
DateFromNow(ms) == [t |-> "date", ref |-> "now", ms |-> ms]   \* now + ms

NoKeys == [k \in {} |-> Undefined]

(* { ...a, ...b } on the field maps of two plain objects *)
Spread(a, b) ==
    [k \in (DOMAIN a) \cup (DOMAIN b) |-> IF k \in DOMAIN b THEN b[k] ELSE a[k]]

(* -------------------------- the random source -------------------------- *)
(* A source is a stream of raw draws; seeding fixes the whole stream.      *)
RECURSIVE Pow(_, _)
Pow(b, e) == IF e = 0 THEN 1 ELSE b * Pow(b, e - 1)

RECURSIVE SumSeq(_)
SumSeq(s) == IF s = <<>> THEN 0 ELSE Head(s) + SumSeq(Tail(s))

FakerSeed(seedArray) ==
    LET h == SumSeq(seedArray) % Pow(RawVals, TapeLen)
    IN  [i \in 1..TapeLen |-> (h \div Pow(RawVals, i - 1)) % RawVals]

Raw(rng) == Head(rng)
Advance(rng) == Append(Tail(rng), Head(rng))

Ok(v, rng) == [v |-> v, rng |-> rng, err |-> "none"]
Fail(e, rng) == [v |-> Undefined, rng |-> rng, err |-> e]

(* faker.number.int({min, max}) on plain integers *)
FakerInt(min, max, rng) ==
    IF max < min THEN Fail("FakerError", rng)
    ELSE IF max = min THEN Ok(min, rng)
    ELSE Ok(min + (Raw(rng) % (max - min + 1)), Advance(rng))

(* faker.number.float({min, max}) on fixed-point numbers *)
FakerFloat(min, max, rng) ==
    IF max < min THEN Fail("FakerError", rng)
    ELSE IF max = min THEN Ok(min, rng)
    ELSE Ok(min + (Raw(rng) % (max - min + 1)), Advance(rng))

(* faker.date.between({ from, to }) *)
FakerDateBetween(from, to, rng) ==
    IF from > to THEN Fail("FakerError", rng)
    ELSE LET r == FakerInt(from, to, rng) IN Ok(DateV(r.v), r.rng)

(* faker.date.future({ refDate }): up to one year after refDate *)
FakerDateFuture(refDate, rng) ==
    LET r == FakerInt(1, YearSpan, rng) IN Ok(DateV(refDate + r.v), r.rng)

(* faker.date.past({ refDate }): up to one year before refDate *)
FakerDatePast(refDate, rng) ==
    LET r == FakerInt(1, YearSpan, rng) IN Ok(DateV(refDate - r.v), r.rng)

(* faker.date.recent(): up to one day before the current time *)
FakerDateRecent(rng) ==
    LET r == FakerInt(1, DaySpan, rng) IN Ok(DateFromNow(0 - r.v), r.rng)

(* faker.datatype.boolean() *)
FakerBoolean(rng) == Ok(Bool(Raw(rng) % 2 = 1), Advance(rng))

(* faker.helpers.arrayElement(list) *)
FakerArrayElement(list, rng) ==
    IF Len(list) = 0 THEN Fail("FakerError", rng)
    ELSE Ok(list[1 + (Raw(rng) % Len(list))], Advance(rng))

(* faker.string.alpha({ length }) *)
FakerAlpha(length, rng) ==
    IF length <= 0 THEN Ok(Str(0, 0), rng)
    ELSE Ok(Str(length, Raw(rng)), Advance(rng))

(* ------------------------------ schemas -------------------------------- *)
(* A schema node is a record: kind (the class the instanceof tests see),   *)
(* meta (the format tag of its metadata, "" when it has none, "nometa"     *)
(* when the object has no meta function) and the fields of its kind.       *)
NullB == [b |-> "null"]                 \* an absent numeric bound
PosInf == [b |-> "inf"]                 \* Infinity
NegInf == [b |-> "-inf"]                \* -Infinity
Fin(n) == [b |-> "fin", n |-> n]        \* a finite bound, in 1/Scale units
NullLen == -1                           \* minLength / maxLength === null

ZString(min, max) ==
    [kind |-> "ZodString", meta |-> "", minLength |-> min, maxLength |-> max,
     format |-> "none"]
ZNumber(min, max, format) ==
    [kind |-> "ZodNumber", meta |-> "", minValue |-> min, maxValue |-> max,
     format |-> format]
ZBoolean == [kind |-> "ZodBoolean", meta |-> ""]
ZNull == [kind |-> "ZodNull", meta |-> ""]
ZVoid == [kind |-> "ZodVoid", meta |-> ""]
ZLiteral(v) == [kind |-> "ZodLiteral", meta |-> "", value |-> v]
ZEnum(options) == [kind |-> "ZodEnum", meta |-> "", options |-> options]
ZOptional(inner) == [kind |-> "ZodOptional", meta |-> "", innerType |-> inner]
ZNullable(inner) == [kind |-> "ZodNullable", meta |-> "", innerType |-> inner]
ZDefault(inner, defaultValue) ==
    [kind |-> "ZodDefault", meta |-> "", innerType |-> inner,
     defaultValue |-> defaultValue]
ZArray(element, checks) ==
    [kind |-> "ZodArray", meta |-> "", element |-> element, checks |-> checks]
ZObject(shape) == [kind |-> "ZodObject", meta |-> "", shape |-> shape]
ZUnion(options) == [kind |-> "ZodUnion", meta |-> "", options |-> options]
ZDiscriminatedUnion(discriminator, options) ==
    [kind |-> "ZodDiscriminatedUnion", meta |-> "",
     discriminator |-> discriminator, options |-> options]
ZSet(valueType, checks) ==
    [kind |-> "ZodSet", meta |-> "", valueType |-> valueType, checks |-> checks]
(* z.lazy(getter); depth = the resolutions of lazy nodes already on the    *)
(* call stack when this node is reached                                    *)
ZLazy(getter, depth) ==
    [kind |-> "ZodLazy", meta |-> "", getter |-> getter, depth |-> depth]
(* z.promise(inner): unwrap() gives the inner schema *)
ZPromise(inner) == [kind |-> "ZodPromise", meta |-> "", innerType |-> inner]
ZSymbol == [kind |-> "ZodSymbol", meta |-> ""]
ZCustom == [kind |-> "ZodCustom", meta |-> ""]
(* a plain object that is no schema of the library: no meta, no parse *)
NotASchema == [kind |-> "ZodCustomUnsupportedType", meta |-> "nometa"]
WithMeta(schema, format) == [schema EXCEPT !.meta = format]

Field(key, schema) == [key |-> key, schema |-> schema]

(* const complexSchema = z.object({ ..., nested: z.lazy(() =>              *)
(* complexSchema.optional()) }), and the same with nullable()              *)
ComplexSchema(wrapper, depth) ==
    ZObject(<<Field("score", ZDefault(ZBoolean, Bool(FALSE))),
              Field("nested", ZLazy(wrapper, depth))>>)

(* schema.def.getter() *)
Getter(schema) ==
    IF schema.getter = "optional"
    THEN ZOptional(ComplexSchema("optional", schema.depth + 1))
    ELSE ZNullable(ComplexSchema("nullable", schema.depth + 1))
Check(check, value) == [check |-> check, value |-> value]

(* Constants.BRAZILIAN_MOCK_DATA: five fixed samples per format *)
BRAZILIAN_MOCK_DATA ==
    [cpf     |-> [i \in 1..5 |-> Str(11, 100 + i)],
     cnpj    |-> [i \in 1..5 |-> Str(14, 200 + i)],
     rg      |-> [i \in 1..5 |-> Str(9, 300 + i)],
     phoneBR |-> [i \in 1..5 |-> Str(11, 400 + i)],
     cep     |-> [i \in 1..5 |-> Str(8, 500 + i)]]

(* ----------------------- constraint extraction ------------------------- *)
(* checks.find(c => c._zod.def.check === name): index of the first match,  *)
(* 0 when there is none                                                    *)
RECURSIVE FindCheckFrom(_, _, _)
FindCheckFrom(checks, name, i) ==
    IF i > Len(checks) THEN 0
    ELSE IF checks[i].check = name THEN i
    ELSE FindCheckFrom(checks, name, i + 1)

RECURSIVE FindCheckLastFrom(_, _, _)
FindCheckLastFrom(checks, name, i) ==
    IF i < 1 THEN 0
    ELSE IF checks[i].check = name THEN i
    ELSE FindCheckLastFrom(checks, name, i - 1)

FindCheckLast(checks, name) == FindCheckLastFrom(checks, name, Len(checks))

FindCheck(checks, name) == FindCheckFrom(checks, name, 1)

(* The bounds a string or number schema reports: every check of a kind    *)
(* updates the bound when it is tighter, so the largest minimum and the    *)
(* smallest maximum of the list are reported, null / +-Infinity for none.  *)
RECURSIVE bagMinimum(_, _, _, _)
bagMinimum(checks, name, i, curr) ==
    IF i > Len(checks) THEN curr
    ELSE IF checks[i].check = name
            /\ (curr.b # "fin" \/ checks[i].value > curr.n)
    THEN bagMinimum(checks, name, i + 1, Fin(checks[i].value))
    ELSE bagMinimum(checks, name, i + 1, curr)

RECURSIVE bagMaximum(_, _, _, _)
bagMaximum(checks, name, i, curr) ==
    IF i > Len(checks) THEN curr
    ELSE IF checks[i].check = name
            /\ (curr.b # "fin" \/ checks[i].value < curr.n)
    THEN bagMaximum(checks, name, i + 1, Fin(checks[i].value))
    ELSE bagMaximum(checks, name, i + 1, curr)

LengthOf(bound) == IF bound.b = "fin" THEN bound.n ELSE NullLen

(* z.string() with checks added by .min(n) / .max(n) *)
ZStringOf(checks) ==
    [kind |-> "ZodString", meta |-> "", format |-> "none", checks |-> checks,
     minLength |-> LengthOf(bagMinimum(checks, "min_length", 1, NullB)),
     maxLength |-> LengthOf(bagMaximum(checks, "max_length", 1, NullB))]

(* z.number() with checks added by .min(n) / .max(n) *)
ZNumberOf(checks, format) ==
    [kind |-> "ZodNumber", meta |-> "", format |-> format, checks |-> checks,
     minValue |-> bagMinimum(checks, "greater_than", 1, NegInf),
     maxValue |-> bagMaximum(checks, "less_than", 1, PosInf)]

(* z.date() and z.bigint() with checks added by .min(v) / .max(v) *)
ZDate(checks) == [kind |-> "ZodDate", meta |-> "", checks |-> checks]
ZBigInt(checks) == [kind |-> "ZodBigInt", meta |-> "", checks |-> checks]

(* an object whose def is { typeName, schema, effect }: no schema class   *)
(* of the library, no meta                                                 *)
Effect(type, transform) == [type |-> type, transform |-> transform]
NoEffect == [type |-> "none", transform |-> "none"]
ZEffects(inner, effect) ==
    [kind |-> "Object", meta |-> "nometa", typeName |-> ZOD_TYPE_EFFECTS,
     schema |-> inner, effect |-> effect]

(* the transform functions of the effects: what a call returns, or that   *)
(* it throws                                                               *)
Returned(v) == [threw |-> FALSE, v |-> v]
Threw == [threw |-> TRUE, v |-> Undefined]
CallTransform(transform, inputValue) ==
    IF transform = "not"
    THEN (IF inputValue.t = "boolean" THEN Returned(Bool(~inputValue.b))
          ELSE Threw)
    ELSE IF transform = "lengthOfTrue"
    THEN (IF inputValue = Bool(TRUE) THEN Returned(IntV(4)) ELSE Threw)
    ELSE Threw

(* (check?._zod.def)?.minimum ?? defaultValue *)
CheckValueOr(checks, name, defaultValue) ==
    LET i == FindCheck(checks, name)
    IN  IF i = 0 THEN defaultValue ELSE checks[i].value

IsInteger(bound) == bound.b = "fin" /\ bound.n % Scale = 0

getNormalizedBoundsUnswapped(minValue, maxValue, isFloat) ==
    LET isInfinity(v) == v.b \in {"inf", "-inf"}
        defaultMin == IF isFloat THEN DEFAULT_FLOAT_MIN * Scale
                      ELSE DEFAULT_INT_MIN * Scale
        defaultMax == IF isFloat THEN DEFAULT_FLOAT_MAX * Scale
                      ELSE DEFAULT_INT_MAX * Scale
        getBound(value, defaultValue) ==
            IF value.b = "null" \/ isInfinity(value) THEN defaultValue
            ELSE value.n
    IN  [min |-> getBound(minValue, defaultMin),
         max |-> getBound(maxValue, defaultMax)]

getNormalizedBounds(minValue, maxValue, isFloat) ==
    LET isInfinity(v) == v.b \in {"inf", "-inf"}
        defaultMin == IF isFloat THEN DEFAULT_FLOAT_MIN * Scale
                      ELSE DEFAULT_INT_MIN * Scale
        defaultMax == IF isFloat THEN DEFAULT_FLOAT_MAX * Scale
                      ELSE DEFAULT_INT_MAX * Scale
        getBound(value, defaultValue) ==
            IF value.b = "null" \/ isInfinity(value) THEN defaultValue
            ELSE value.n
        minBound == getBound(minValue, defaultMin)
        maxBound == getBound(maxValue, defaultMax)
    IN  IF minBound > maxBound THEN [min |-> maxBound, max |-> minBound]
        ELSE [min |-> minBound, max |-> maxBound]

generateNumberValue(schema, rng) ==
    LET hasDecimalBounds ==
            ~IsInteger(schema.minValue) \/ ~IsInteger(schema.maxValue)
        hasFloatFormat == schema.format \in FLOAT_FORMATS
        isFloat == hasFloatFormat \/ hasDecimalBounds
        nb == getNormalizedBounds(schema.minValue, schema.maxValue, isFloat)
    IN  IF isFloat
        THEN LET r == FakerFloat(nb.min, nb.max, rng)
             IN  IF r.err # "none" THEN r ELSE Ok(Num(r.v), r.rng)
        ELSE LET r == FakerInt(nb.min \div Scale, nb.max \div Scale, rng)
             IN  IF r.err # "none" THEN r ELSE Ok(IntV(r.v), r.rng)

generateStringValue(schema, rng) ==
    LET minStringLength == IF schema.minLength = NullLen
                           THEN DEFAULT_STRING_MIN_LENGTH ELSE schema.minLength
        maxStringLength == IF schema.maxLength = NullLen
                           THEN DEFAULT_STRING_MAX_LENGTH ELSE schema.maxLength
        stringLength == FakerInt(minStringLength, maxStringLength, rng)
    IN  IF stringLength.err # "none" THEN stringLength
        ELSE FakerAlpha(stringLength.v, stringLength.rng)

getBrazilianMockValue(type, rng) ==
    FakerArrayElement(BRAZILIAN_MOCK_DATA[type], rng)

BrazilianFormats == {"cpf", "cnpj", "rg", "phoneBR", "cep"}

hasMetadata(schema) == schema.meta # "nometa"

isBrandedType(schema) == "innerType" \in DOMAIN schema

(* def?.typeName === Constants.ZOD_TYPE_EFFECTS *)
isEffectsType(schema) ==
    "typeName" \in DOMAIN schema /\ schema.typeName = ZOD_TYPE_EFFECTS

(* --------------------------- the dispatcher ---------------------------- *)
generateDefaultUncalled(schema) == schema.defaultValue

(* def.defaultValue, called when it is a function *)
generateDefault(schema) ==
    LET defaultValueOrFunction == schema.defaultValue
    IN  IF defaultValueOrFunction.t = "function"
        THEN defaultValueOrFunction.returns
        ELSE defaultValueOrFunction

applyEffectUncaught(effect, inputValue, rng) ==
    IF effect.type = EFFECT_TYPE_TRANSFORM
    THEN LET r == CallTransform(effect.transform, inputValue)
         IN  IF r.threw THEN Fail("Error", rng) ELSE Ok(r.v, rng)
    ELSE Ok(inputValue, rng)

(* try { return effect.transform(inputValue, ...) } catch { return        *)
(* inputValue }, for a transform effect; inputValue for any other          *)
applyEffect(effect, inputValue, rng) ==
    IF effect.type = EFFECT_TYPE_TRANSFORM
    THEN LET r == CallTransform(effect.transform, inputValue)
         IN  IF r.threw THEN Ok(inputValue, rng) ELSE Ok(r.v, rng)
    ELSE Ok(inputValue, rng)

(* schema instanceof z.ZodUnion: a discriminated union is a union too *)
instanceofZodUnion(schema) ==
    schema.kind \in {"ZodUnion", "ZodDiscriminatedUnion"}

selectedOptionMixed(options, rng) ==
    IF \A n \in 1..Len(options) : options[n].kind = "ZodObject"
    THEN Ok(ZObject(options[1].shape \o options[Len(options)].shape),
            Advance(rng))
    ELSE FakerArrayElement(options, rng)

(* this.faker.helpers.arrayElement(options) *)
selectedOption(options, rng) == FakerArrayElement(options, rng)

generateLiteralDrawn(schema, rng) == Ok(schema.value, Advance(rng))

(* return schema.value *)
generateLiteral(schema, rng) == Ok(schema.value, rng)

(* items.add(value): same-value equality on primitives, identity on the    *)
(* freshly built objects, arrays and sets                                  *)
IsPrimitive(v) ==
    v.t \in {"undefined", "null", "number", "string", "boolean", "bigint"}

SetAdd(items, v) ==
    IF IsPrimitive(v) /\ \E n \in 1..Len(items) : items[n] = v
    THEN items ELSE Append(items, v)

RECURSIVE generateFromSchema(_, _)
RECURSIVE generateEntries(_, _, _, _)
RECURSIVE generateElements(_, _, _, _)
RECURSIVE generateSetItems(_, _, _, _, _)

(* for (let i = 0; i < targetSize * 3; i++) { items.add(...);              *)
(*   if (items.size >= targetSize) break; }                                *)
generateSetItems(valueType, targetSize, i, rng, items) ==
    IF ~(i < targetSize * 3) THEN Ok(SetV(items), rng)
    ELSE LET r == generateFromSchema(valueType, rng)
         IN  IF r.err # "none" THEN r
             ELSE LET added == SetAdd(items, r.v)
                  IN  IF Len(added) >= targetSize THEN Ok(SetV(added), r.rng)
                      ELSE generateSetItems(valueType, targetSize, i + 1,
                                            r.rng, added)

(* Object.entries(schema.shape).map(...) , in insertion order *)
generateEntries(shape, i, rng, acc) ==
    IF i > Len(shape) THEN Ok(Obj(acc), rng)
    ELSE LET r == generateFromSchema(shape[i].schema, rng)
         IN  IF r.err # "none" THEN r
             ELSE generateEntries(shape, i + 1, r.rng,
                                  Spread(acc, (shape[i].key :> r.v)))

(* Array.from({ length }, () => this.generateFromSchema(element)) *)
generateElements(element, length, rng, acc) ==
    IF Len(acc) >= length THEN Ok(Arr(acc), rng)
    ELSE LET r == generateFromSchema(element, rng)
         IN  IF r.err # "none" THEN r
             ELSE generateElements(element, length, r.rng, Append(acc, r.v))

generateFromSchema(schema, rng) ==
    IF hasMetadata(schema) /\ schema.meta \in BrazilianFormats
    THEN getBrazilianMockValue(schema.meta, rng)
    ELSE IF instanceofZodUnion(schema)
    THEN LET option == selectedOption(schema.options, rng)
         IN  IF option.err # "none" THEN option
             ELSE generateFromSchema(option.v, option.rng)
    ELSE IF schema.kind = "ZodString" THEN generateStringValue(schema, rng)
    ELSE IF schema.kind = "ZodNumber" THEN generateNumberValue(schema, rng)
    ELSE IF schema.kind = "ZodBoolean" THEN FakerBoolean(rng)
    ELSE IF schema.kind = "ZodDate"
    THEN LET minConstraint == FindCheck(schema.checks, "greater_than")
             maxConstraint == FindCheck(schema.checks, "less_than")
             minDateBound == schema.checks[minConstraint].value
             maxDateBound == schema.checks[maxConstraint].value
         IN  IF minConstraint # 0 /\ maxConstraint # 0
             THEN FakerDateBetween(minDateBound, maxDateBound, rng)
             ELSE IF minConstraint # 0
             THEN FakerDateFuture(minDateBound, rng)
             ELSE IF maxConstraint # 0
             THEN FakerDatePast(maxDateBound, rng)
             ELSE FakerDateRecent(rng)
    ELSE IF schema.kind = "ZodArray"
    THEN LET minLength == CheckValueOr(schema.checks, "min_length",
                                       DEFAULT_ARRAY_MIN_LENGTH)
             maxLength == CheckValueOr(schema.checks, "max_length",
                                       DEFAULT_ARRAY_MAX_LENGTH)
             arrayLength == FakerInt(minLength, maxLength, rng)
         IN  IF arrayLength.err # "none" THEN arrayLength
             ELSE generateElements(schema.element, arrayLength.v,
                                   arrayLength.rng, <<>>)
    ELSE IF schema.kind = "ZodObject"
    THEN generateEntries(schema.shape, 1, rng, NoKeys)
    ELSE IF schema.kind = "ZodEnum"
    THEN FakerArrayElement(schema.options, rng)
    ELSE IF schema.kind = "ZodOptional"
    THEN generateFromSchema(schema.innerType, rng)
    ELSE IF schema.kind = "ZodNullable"
    THEN generateFromSchema(schema.innerType, rng)
    ELSE IF schema.kind = "ZodDefault" THEN Ok(generateDefault(schema), rng)
    ELSE IF schema.kind = "ZodLazy"
    THEN IF schema.depth >= MaxDepth THEN Fail("RangeError", rng)
         ELSE generateFromSchema(Getter(schema), rng)
    ELSE IF schema.kind = "ZodVoid" THEN Ok(Undefined, rng)
    ELSE IF schema.kind = "ZodNull" THEN Ok(Null, rng)
    ELSE IF schema.kind = "ZodLiteral" THEN generateLiteral(schema, rng)
    ELSE IF schema.kind = "ZodSet"
    THEN LET minSetSize == CheckValueOr(schema.checks, "min_size",
                                        DEFAULT_SET_MIN_SIZE)
             maxSetSize == CheckValueOr(schema.checks, "max_size",
                                        DEFAULT_SET_MAX_SIZE)
             targetSize == FakerInt(minSetSize, maxSetSize, rng)
         IN  IF targetSize.err # "none" THEN targetSize
             ELSE generateSetItems(schema.valueType, targetSize.v, 0,
                                   targetSize.rng, <<>>)
    ELSE IF isBrandedType(schema)
    THEN generateFromSchema(schema.innerType, rng)
    ELSE IF schema.kind = "ZodDiscriminatedUnion"
    THEN LET option == selectedOption(schema.options, rng)
         IN  IF option.err # "none" THEN option
             ELSE generateFromSchema(option.v, option.rng)
    ELSE IF isEffectsType(schema)
    THEN LET inputValue == generateFromSchema(schema.schema, rng)
         IN  IF inputValue.err # "none" THEN inputValue
             ELSE applyEffect(schema.effect, inputValue.v, inputValue.rng)
    ELSE IF schema.kind = "ZodBigInt"
    THEN LET minBigInt == CheckValueOr(schema.checks, "greater_than",
                                       DEFAULT_BIGINT_MIN)
             maxBigInt == CheckValueOr(schema.checks, "less_than",
                                       DEFAULT_BIGINT_MAX)
             minNumber == IF minBigInt < maxBigInt THEN minBigInt
                          ELSE maxBigInt
             maxNumber == IF minBigInt < maxBigInt THEN maxBigInt
                          ELSE minBigInt
             generatedNumber == FakerInt(minNumber, maxNumber, rng)
         IN  IF generatedNumber.err # "none" THEN generatedNumber
             ELSE Ok(BigIntV(generatedNumber.v), generatedNumber.rng)
    ELSE Ok(Null, rng)

(* ----------------- validation by the schema library -------------------- *)
Valid(v) == [ok |-> TRUE, v |-> v]
Invalid == [ok |-> FALSE, v |-> Undefined]

InBound(n, bound, isMin) ==
    \/ bound.b \in {"null", "inf", "-inf"}
    \/ bound.b = "fin" /\ (IF isMin THEN n >= bound.n ELSE n <= bound.n)

RECURSIVE ChecksHold(_, _, _)
ChecksHold(checks, i, length) ==
    \/ i > Len(checks)
    \/ /\ checks[i].check = "min_length" => length >= checks[i].value
       /\ checks[i].check = "max_length" => length <= checks[i].value
       /\ checks[i].check = "min_size" => length >= checks[i].value
       /\ checks[i].check = "max_size" => length <= checks[i].value
       /\ ChecksHold(checks, i + 1, length)

RECURSIVE parse(_, _)
RECURSIVE parseEntries(_, _, _, _)
RECURSIVE parseElements(_, _, _, _)
RECURSIVE parseOptions(_, _, _)

parseEntries(shape, i, input, acc) ==
    IF i > Len(shape) THEN Valid(Obj(acc))
    ELSE LET key == shape[i].key
             present == key \in DOMAIN input
             r == parse(shape[i].schema,
                        IF present THEN input[key] ELSE Undefined)
         IN  IF ~r.ok THEN Invalid
             ELSE IF present \/ r.v # Undefined
             THEN parseEntries(shape, i + 1, input, Spread(acc, (key :> r.v)))
             ELSE parseEntries(shape, i + 1, input, acc)

parseElements(element, i, items, acc) ==
    IF i > Len(items) THEN Valid(Arr(acc))
    ELSE LET r == parse(element, items[i])
         IN  IF ~r.ok THEN Invalid
             ELSE parseElements(element, i + 1, items, Append(acc, r.v))

parseOptions(options, i, v) ==
    IF i > Len(options) THEN Invalid
    ELSE LET r == parse(options[i], v)
         IN  IF r.ok THEN r ELSE parseOptions(options, i + 1, v)

parse(schema, v) ==
    IF schema.kind = "ZodString"
    THEN IF /\ v.t = "string"
            /\ (schema.minLength = NullLen \/ v.len >= schema.minLength)
            /\ (schema.maxLength = NullLen \/ v.len <= schema.maxLength)
         THEN Valid(v) ELSE Invalid
    ELSE IF schema.kind = "ZodNumber"
    THEN IF /\ v.t = "number"
            /\ InBound(v.n, schema.minValue, TRUE)
            /\ InBound(v.n, schema.maxValue, FALSE)
         THEN Valid(v) ELSE Invalid
    ELSE IF schema.kind = "ZodBoolean"
    THEN IF v.t = "boolean" THEN Valid(v) ELSE Invalid
    ELSE IF schema.kind = "ZodNull"
    THEN IF v = Null THEN Valid(v) ELSE Invalid
    ELSE IF schema.kind = "ZodVoid"
    THEN IF v = Undefined THEN Valid(v) ELSE Invalid
    ELSE IF schema.kind = "ZodLiteral"
    THEN IF v = schema.value THEN Valid(v) ELSE Invalid
    ELSE IF schema.kind = "ZodEnum"
    THEN IF \E i \in 1..Len(schema.options) : schema.options[i] = v
         THEN Valid(v) ELSE Invalid
    ELSE IF schema.kind = "ZodOptional"
    THEN IF v = Undefined THEN Valid(v) ELSE parse(schema.innerType, v)
    ELSE IF schema.kind = "ZodNullable"
    THEN IF v = Null THEN Valid(v) ELSE parse(schema.innerType, v)
    ELSE IF schema.kind = "ZodDefault"
    THEN IF v = Undefined
         THEN Valid(IF schema.defaultValue.t = "function"
                    THEN schema.defaultValue.returns ELSE schema.defaultValue)
         ELSE parse(schema.innerType, v)
    ELSE IF schema.kind = "ZodArray"
    THEN IF v.t = "array" /\ ChecksHold(schema.checks, 1, Len(v.items))
         THEN parseElements(schema.element, 1, v.items, <<>>)
         ELSE Invalid
    ELSE IF schema.kind = "ZodObject"
    THEN IF v.t = "object" THEN parseEntries(schema.shape, 1, v.f, NoKeys)
         ELSE Invalid
    ELSE IF instanceofZodUnion(schema) THEN parseOptions(schema.options, 1, v)
    ELSE IF schema.kind = "ZodSet"
    THEN IF v.t = "set" /\ ChecksHold(schema.checks, 1, Len(v.items))
         THEN LET r == parseElements(schema.valueType, 1, v.items, <<>>)
              IN  IF r.ok THEN Valid(SetV(r.v.items)) ELSE Invalid
         ELSE Invalid
    ELSE IF schema.kind = "ZodLazy" THEN parse(Getter(schema), v)
    ELSE IF schema.kind = "ZodCustom" THEN Valid(v)
    ELSE Invalid

(* ---------------------- generate / generateMany ------------------------ *)
(* MockOptions: given = an argument was passed; faker = the injected       *)
(* source or "none"; hasOverrides = ('overrides' in options)               *)
Options(faker, hasOverrides, overrides) ==
    [given |-> TRUE, faker |-> faker, hasOverrides |-> hasOverrides,
     overrides |-> overrides]
NoOptions ==
    [given |-> FALSE, faker |-> "none", hasOverrides |-> FALSE,
     overrides |-> Undefined]
EmptyOptions == Options("none", FALSE, Undefined)

(* typeof value === 'object', and not null, array, Date, Set or Map *)
isPlainObject(value) ==
    /\ value.t \notin {"undefined", "number", "string", "boolean", "function",
                       "bigint"}
    /\ value.t # "null"
    /\ value.t # "array"
    /\ value.t # "date"
    /\ value.t # "set"
    /\ value.t # "map"

Truthy(value) ==
    value \notin {Undefined, Null, IntV(0), Bool(FALSE), Str(0, 0)}

hasCustomOverridesTruthy(overrides) ==
    overrides.given /\ overrides.hasOverrides /\ Truthy(overrides.overrides)

mergeOverridesDraftWins(mockData, overrides) ==
    Obj(Spread(overrides.f, mockData.f))

(* !!overrides && 'overrides' in overrides *)
hasCustomOverrides(overrides) == overrides.given /\ overrides.hasOverrides

(* { ...mockData, ...overrides.overrides } *)
mergeOverrides(mockData, overrides) == Obj(Spread(mockData.f, overrides.f))

candidateIgnoringOverrides(mockData, overrides) == mockData

(* the value handed to this.schema.parse *)
candidateOf(mockData, overrides) ==
    IF ~hasCustomOverrides(overrides) THEN mockData
    ELSE IF isPlainObject(overrides.overrides) /\ isPlainObject(mockData)
    THEN mergeOverrides(mockData, overrides.overrides)
    ELSE overrides.overrides

parseOrFallback(schema, candidate) ==
    LET r == parse(schema, candidate)
    IN  IF r.ok THEN [out |-> "return", value |-> r.v, err |-> "none"]
        ELSE [out |-> "return", value |-> candidate, err |-> "none"]

(* return this.schema.parse(candidate): the parsed value, or its throw *)
parseOrThrow(schema, candidate) ==
    IF ~hasMetadata(schema)
    THEN [out |-> "throw", value |-> Undefined, err |-> "TypeError"]
    ELSE LET r == parse(schema, candidate)
         IN  IF r.ok THEN [out |-> "return", value |-> r.v, err |-> "none"]
             ELSE [out |-> "throw", value |-> Undefined, err |-> "ZodError"]

finallyFakerKept(originalFaker, activeFaker, threw) == activeFaker

finallyFakerOnReturn(originalFaker, activeFaker, threw) ==
    IF threw THEN activeFaker ELSE originalFaker

(* finally { this.faker = originalFaker } *)
finallyFaker(originalFaker, activeFaker, threw) == originalFaker

activeFakerIgnored(thisFaker, overrides) == thisFaker

(* if (overrides?.faker) { this.faker = overrides.faker } *)
activeFakerOf(thisFaker, overrides) ==
    IF overrides.given /\ overrides.faker # "none"
    THEN overrides.faker ELSE thisFaker

generateDraftOnDemand(schema, thisFaker, rng, overrides) ==
    LET originalFaker == thisFaker
        activeFaker == activeFakerOf(thisFaker, overrides)
        replaced == /\ hasCustomOverrides(overrides)
                    /\ ~isPlainObject(overrides.overrides)
        mockData == IF replaced THEN Ok(Undefined, rng[activeFaker])
                    ELSE generateFromSchema(schema, rng[activeFaker])
        rngAfter == [rng EXCEPT ![activeFaker] = mockData.rng]
        candidate == candidateOf(mockData.v, overrides)
        result == parseOrThrow(schema, candidate)
    IN  IF mockData.err # "none"
        THEN [out |-> "throw", value |-> Undefined, err |-> mockData.err,
              drafted |-> FALSE, draft |-> Undefined, candidate |-> Undefined,
              active |-> activeFaker, rng |-> rngAfter,
              faker |-> finallyFaker(originalFaker, activeFaker, TRUE)]
        ELSE [out |-> result.out, value |-> result.value, err |-> result.err,
              drafted |-> TRUE, draft |-> mockData.v, candidate |-> candidate,
              active |-> activeFaker, rng |-> rngAfter,
              faker |-> finallyFaker(originalFaker, activeFaker,
                                     result.out = "throw")]

generate(schema, thisFaker, rng, overrides) ==
    LET originalFaker == thisFaker
        activeFaker == activeFakerOf(thisFaker, overrides)
        mockData == generateFromSchema(schema, rng[activeFaker])
        rngAfter == [rng EXCEPT ![activeFaker] = mockData.rng]
        candidate == candidateOf(mockData.v, overrides)
        result == parseOrThrow(schema, candidate)
    IN  IF mockData.err # "none"
        THEN [out |-> "throw", value |-> Undefined, err |-> mockData.err,
              drafted |-> FALSE, draft |-> Undefined, candidate |-> Undefined,
              active |-> activeFaker, rng |-> rngAfter,
              faker |-> finallyFaker(originalFaker, activeFaker, TRUE)]
        ELSE [out |-> result.out, value |-> result.value, err |-> result.err,
              drafted |-> TRUE, draft |-> mockData.v, candidate |-> candidate,
              active |-> activeFaker, rng |-> rngAfter,
              faker |-> finallyFaker(originalFaker, activeFaker,
                                     result.out = "throw")]

(* Array.from({ length: count }, () => this.generate(options)) *)
RECURSIVE generateManyFrom(_, _, _, _, _, _)
generateManyFrom(schema, thisFaker, rng, options, count, acc) ==
    IF Len(acc) >= count
    THEN [out |-> "return", value |-> Arr(acc), err |-> "none",
          rng |-> rng, faker |-> thisFaker]
    ELSE LET g == generate(schema, thisFaker, rng, options)
         IN  IF g.out = "throw"
             THEN [out |-> "throw", value |-> Undefined, err |-> g.err,
                   rng |-> g.rng, faker |-> g.faker]
             ELSE generateManyFrom(schema, g.faker, g.rng, options, count,
                                   Append(acc, g.value))

generateManyShort(schema, thisFaker, rng, count, options) ==
    generateManyFrom(schema, thisFaker, rng,
                     IF options.given THEN options ELSE EmptyOptions,
                     count - 1, <<>>)

generateManyRepeated(schema, thisFaker, rng, count, options) ==
    LET g == generate(schema, thisFaker, rng,
                      IF options.given THEN options ELSE EmptyOptions)
    IN  IF count = 0
        THEN [out |-> "return", value |-> Arr(<<>>), err |-> "none",
              rng |-> rng, faker |-> thisFaker]
        ELSE IF g.out = "throw"
        THEN [out |-> "throw", value |-> Undefined, err |-> g.err,
              rng |-> g.rng, faker |-> g.faker]
        ELSE [out |-> "return", value |-> Arr([k \in 1..count |-> g.value]),
              err |-> "none", rng |-> g.rng, faker |-> g.faker]

generateMany(schema, thisFaker, rng, count, options) ==
    generateManyFrom(schema, thisFaker, rng,
                     IF options.given THEN options ELSE EmptyOptions,
                     count, <<>>)

(* seed(seed): Array.isArray(seed) ? seed : [seed], then this.faker.seed *)
SeedNumber(n) == [isArray |-> FALSE, n |-> n]
SeedArray(a) == [isArray |-> TRUE, a |-> a]

seedArrayOfListsOnly(seed) == IF seed.isArray THEN seed.a ELSE <<>>

seedArrayOf(seed) == IF seed.isArray THEN seed.a ELSE <<seed.n>>

seedIgnored(thisFaker, rng, seedArg) == rng

seed(thisFaker, rng, seedArg) ==
    [rng EXCEPT ![thisFaker] = FakerSeed(seedArrayOf(seedArg))]

(* ---------------------------- the universe ----------------------------- *)
Name2 == Str(2, 9)
Active == Str(6, 50)

UserShape ==
    <<Field("name", ZString(1, 2)),
      Field("age", ZNumber(Fin(18 * Scale), Fin(19 * Scale), "none")),
      Field("status", ZDefault(ZString(NullLen, NullLen), Active))>>

SupportedSchemas ==
    { ZString(NullLen, NullLen),
      ZString(21, NullLen),
      ZNumber(Fin(18 * Scale), Fin(19 * Scale), "none"),
      ZBoolean,
      ZNull,
      ZLiteral(Name2),
      ZEnum(<<Name2, Active>>),
      WithMeta(ZString(NullLen, NullLen), "cpf"),
      ZOptional(ZString(1, 2)),
      ZDefault(ZString(NullLen, NullLen), Active),
      ZDefault(ZBoolean, Fn(Bool(TRUE))),
      WithMeta(ZDefault(ZString(NullLen, NullLen), Active), "cpf"),
      ZArray(ZBoolean, <<Check("min_length", 1), Check("max_length", 2)>>),
      ZArray(ZBoolean, <<Check("min_length", 2)>>),
      ZArray(ZDefault(ZBoolean, Bool(FALSE)),
             <<Check("min_length", 1), Check("max_length", 2)>>),
      ZOptional(ZDefault(ZBoolean, Fn(Bool(TRUE)))),
      ZUnion(<<ZNull, ZBoolean>>),
      ZObject(UserShape),
      ZNullable(ZObject(<<Field("name", ZString(1, 2))>>)) }

UnsupportedSchemas == { ZSymbol, ZCustom, NotASchema }

Schemas == SupportedSchemas \cup UnsupportedSchemas

OverrideValues ==
    { Undefined, Null, IntV(0), IntV(18), Bool(FALSE), Str(0, 0), Name2,
      Arr(<<Bool(TRUE)>>),
      Obj([name |-> Name2]),
      Obj([age |-> IntV(99)]),
      Obj([status |-> Undefined]),
      Obj([name |-> Str(1, 8), age |-> IntV(19)]) }

Instances == {"A", "B"}
DefaultFakerShared(i) == "dA"

(* this.faker = new Faker({ locale: en }): a source of its own per instance *)
DefaultFaker(i) == IF i = "A" THEN "dA" ELSE "dB"
InjectedFakers == {"F"}
Sources == {"dA", "dB"} \cup InjectedFakers

OptionSet ==
    {NoOptions, EmptyOptions}
    \cup { Options(f, FALSE, Undefined) : f \in InjectedFakers }
    \cup { Options("none", TRUE, o) : o \in OverrideValues }
    \cup { Options(f, TRUE, o) :
             f \in InjectedFakers, o \in {Undefined, Obj([name |-> Name2])} }

ManyOptionSet ==
    {NoOptions, EmptyOptions}
    \cup { Options(f, FALSE, Undefined) : f \in InjectedFakers }
    \cup { Options("none", TRUE, o) :
             o \in {Name2, Obj([name |-> Name2]), Obj([age |-> IntV(99)]),
                    Obj([status |-> Undefined])} }

(* with two instances the calls are drawn from fewer options *)
PairOptionSet ==
    {NoOptions}
    \cup { Options(f, FALSE, Undefined) : f \in InjectedFakers }
    \cup { Options("none", TRUE, Obj([name |-> Name2])) }

PairManyOptionSet == {NoOptions}

SeedArgs ==
    { SeedNumber(n) : n \in 0..MaxSeed }
    \cup { SeedArray(<<n>>) : n \in 0..MaxSeed }

(* ------------------------------- state --------------------------------- *)
VARIABLES
    instances,  \* the generator instances that were constructed
    schema,     \* the schema they were constructed on
    faker,      \* faker[i]: this.faker of instance i, a source
    rng,        \* rng[s]: the stream of source s
    last,       \* the last call and its outcome
    seeded,     \* seeded[i]: seed array i was seeded with, <<>> if not followed
    pending,    \* pending[i]: calls of i since its seed its twin has not made
    whole,      \* no call was dropped from pending since the seed calls
    epoch,      \* the last seed call and the calls counted since
    drawn,      \* the last value generated for a node, and the streams
    normalized, \* the last call of getNormalizedBounds and its result
    stack       \* the generate calls in progress, the outermost first

vars == <<instances, schema, faker, rng, last, seeded, pending, whole,
          epoch, drawn, normalized, stack>>

NoTwin == [has |-> FALSE, out |-> "none", value |-> Undefined, err |-> "none"]

NoCall ==
    [inst |-> "none", op |-> "none", options |-> NoOptions, count |-> 0,
     seedArg |-> SeedArray(<<>>), seedArray |-> <<>>,
     out |-> "none", value |-> Undefined, err |-> "none",
     drafted |-> FALSE, draft |-> Undefined, candidate |-> Undefined,
     active |-> "none", twin |-> NoTwin]

(* epoch: counted = the calls since the seed are being counted; calls =    *)
(* the generate calls that drew from the seeded source since seed(seedArg) *)
NoEpoch == [on |-> FALSE, counted |-> FALSE, seedArg |-> SeedArray(<<>>),
            calls |-> 0]
Uncounted == [on |-> TRUE, counted |-> FALSE, seedArg |-> SeedArray(<<>>),
              calls |-> 0]

NoBounds == [called |-> FALSE, minValue |-> NullB, maxValue |-> NullB,
             isFloat |-> FALSE, min |-> 0, max |-> 0]

NoDraw == [node |-> ZNull, drew |-> FALSE, before |-> <<>>, v |-> Undefined,
           err |-> "none", after |-> <<>>]

SeedTapes == { FakerSeed(<<n>>) : n \in 0..MaxSeed }
Tapes == [1..TapeLen -> 0..(RawVals - 1)]

(* new ZodMockSchema(schema): this.faker = new Faker({ locale: en }), a    *)
(* source that starts at a seed of its own                                 *)
InitCalls(insts, schemas, injectedTapes) ==
    /\ instances = insts
    /\ schema \in schemas
    /\ faker = [i \in Instances |-> DefaultFaker(i)]
    /\ rng \in [Sources -> SeedTapes]
    /\ \A i \in Instances \ insts : rng[DefaultFaker(i)] = FakerSeed(<<0>>)
    /\ \A f \in InjectedFakers : rng[f] \in injectedTapes
    /\ last = NoCall
    /\ seeded = [i \in Instances |-> <<>>]
    /\ pending = [i \in Instances |-> <<>>]
    /\ whole = TRUE

InitWith(insts, schemas, injectedTapes) ==
    /\ InitCalls(insts, schemas, injectedTapes)
    /\ epoch = NoEpoch
    /\ drawn = NoDraw
    /\ normalized = NoBounds
    /\ stack = <<>>

Init == InitWith({"A"}, Schemas, SeedTapes)

Other(i) == IF i = "A" THEN "B" ELSE "A"

(* The twin bookkeeping: what the other instance returned for the same     *)
(* call at the same place after the same seed.                             *)
Followed(i) == Other(i) \in instances /\ seeded[i] # <<>>
Twinned(i) == Followed(i) /\ seeded[Other(i)] = seeded[i]
Matches(i, call) ==
    /\ Twinned(i)
    /\ pending[Other(i)] # <<>>
    /\ Head(pending[Other(i)]).call = call

TwinOf(i, call) ==
    IF Matches(i, call)
    THEN LET e == Head(pending[Other(i)])
         IN  [has |-> TRUE, out |-> e.out, value |-> e.value, err |-> e.err]
    ELSE NoTwin

Unfollow(S) ==
    /\ seeded' = [j \in Instances |-> IF j \in S THEN <<>> ELSE seeded[j]]
    /\ pending' = [j \in Instances |-> IF j \in S THEN <<>> ELSE pending[j]]
    /\ UNCHANGED whole

Track(i, call, g) ==
    LET j == Other(i)
        entry == [call |-> call, out |-> g.out, value |-> g.value,
                  err |-> g.err]
    IN  IF ~Followed(i) THEN UNCHANGED <<seeded, pending, whole>>
        ELSE IF Matches(i, call)
        THEN /\ pending' = [pending EXCEPT ![j] = Tail(@)]
             /\ whole' = FALSE
             /\ UNCHANGED seeded
        ELSE IF Twinned(i) /\ pending[j] # <<>> THEN Unfollow({i, j})
        ELSE IF Len(pending[i]) >= MaxLead THEN Unfollow({i})
        ELSE /\ pending' = [pending EXCEPT ![i] = Append(@, entry)]
             /\ UNCHANGED <<seeded, whole>>

(* calls made of generate on the seeded source are counted; a batch that  *)
(* stopped at a throw, or a count past MaxCalls, ends the counting        *)
Count(options, n, completed) ==
    IF ~epoch.counted \/ options.faker # "none" THEN epoch
    ELSE IF (n > 1 /\ ~completed) \/ epoch.calls + n > MaxCalls THEN Uncounted
    ELSE [epoch EXCEPT !.calls = @ + n]

Seed(i) ==
    \E seedArg \in SeedArgs :
        LET j == Other(i)
            keep == j \in instances /\ seeded[j] = seedArrayOf(seedArg) /\ whole
        IN  /\ rng' = seed(faker[i], rng, seedArg)
            /\ seeded' = [k \in Instances |->
                            IF k = i
                            THEN (IF j \in instances THEN seedArrayOf(seedArg)
                                  ELSE <<>>)
                            ELSE IF keep THEN seeded[k] ELSE <<>>]
            /\ pending' = [k \in Instances |->
                            IF k = i \/ ~keep THEN <<>> ELSE pending[k]]
            /\ whole' = TRUE
            /\ last' = [NoCall EXCEPT !.inst = i, !.op = "seed",
                                      !.seedArg = seedArg,
                                      !.seedArray = seedArrayOf(seedArg),
                                      !.out = "return", !.value = This(i)]
            /\ epoch' = IF epoch.on
                        THEN [on |-> TRUE, counted |-> TRUE,
                              seedArg |-> seedArg, calls |-> 0]
                        ELSE epoch
            /\ UNCHANGED <<instances, schema, faker, drawn, normalized, stack>>

Generate(i) ==
    \E options \in (IF instances = {i} THEN OptionSet ELSE PairOptionSet) :
      \E g \in {generate(schema, faker[i], rng, options)} :
        LET call == [op |-> "generate", options |-> options, count |-> 1]
        IN  /\ faker' = [faker EXCEPT ![i] = g.faker]
            /\ rng' = g.rng
            /\ last' = [inst |-> i, op |-> "generate", options |-> options,
                        count |-> 1, seedArray |-> <<>>,
                        out |-> g.out, value |-> g.value, err |-> g.err,
                        drafted |-> g.drafted, draft |-> g.draft,
                        candidate |-> g.candidate, active |-> g.active,
                        seedArg |-> SeedArray(<<>>),
                        twin |-> TwinOf(i, call)]
            /\ Track(i, call, g)
            /\ epoch' = Count(options, 1, g.out = "return")
            /\ UNCHANGED <<instances, schema, drawn, normalized, stack>>

GenerateMany(i) ==
    \E count \in 0..MaxCount,
       options \in (IF instances = {i} THEN ManyOptionSet
                    ELSE PairManyOptionSet) :
      \E g \in {generateMany(schema, faker[i], rng, count, options)} :
        LET call == [op |-> "generateMany", options |-> options,
                     count |-> count]
        IN  /\ faker' = [faker EXCEPT ![i] = g.faker]
            /\ rng' = g.rng
            /\ last' = [NoCall EXCEPT !.inst = i, !.op = "generateMany",
                                      !.options = options, !.count = count,
                                      !.out = g.out, !.value = g.value,
                                      !.err = g.err,
                                      !.twin = TwinOf(i, call)]
            /\ Track(i, call, g)
            /\ epoch' = Count(options, count, g.out = "return")
            /\ UNCHANGED <<instances, schema, drawn, normalized, stack>>

Next == \E i \in instances : Seed(i) \/ Generate(i) \/ GenerateMany(i)

Spec == Init /\ [][Next]_vars

(* Two instances on one schema, for what relates one instance to another.  *)
PairSchemas ==
    { ZString(NullLen, NullLen),
      ZArray(ZBoolean, <<Check("min_length", 1), Check("max_length", 2)>>),
      ZObject(UserShape) }

InitPair == InitWith(Instances, PairSchemas, {FakerSeed(<<1>>)})

SpecPair == InitPair /\ [][Next]_vars

(* One instance whose calls are counted from each seed call on.            *)
SeedSchemas ==
    { ZString(NullLen, NullLen),
      ZString(21, NullLen),
      ZArray(ZBoolean, <<Check("min_length", 1), Check("max_length", 2)>>),
      ZObject(UserShape) }

InitSeed ==
    /\ InitCalls({"A"}, SeedSchemas, {FakerSeed(<<1>>)})
    /\ epoch = Uncounted
    /\ drawn = NoDraw
    /\ normalized = NoBounds
    /\ stack = <<>>

SpecSeed == InitSeed /\ [][Next]_vars

(* The dispatcher alone, on one node and one stream at a time.             *)
VariantA ==
    ZObject(<<Field("type", ZLiteral(Str(1, 1))),
              Field("value", ZString(1, 2))>>)
VariantB ==
    ZObject(<<Field("type", ZLiteral(Str(1, 2))),
              Field("value", ZNumber(Fin(18 * Scale), Fin(19 * Scale), "none")),
              Field("flag", ZBoolean)>>)

StringNodes ==
    { ZString(NullLen, NullLen), ZString(1, 2), ZString(0, 0), ZString(5, 5),
      ZString(3, NullLen), ZString(NullLen, 7), ZString(21, NullLen),
      ZString(NullLen, 4) }

NumberNodes ==
    { ZNumber(Fin(18 * Scale), Fin(19 * Scale), "none"),
      ZNumber(Fin(1 * Scale), Fin(2 * Scale), "float"),
      ZNumber(NegInf, PosInf, "none"),
      ZNumber(Fin(18 * Scale), PosInf, "none"),
      ZNumber(NegInf, Fin(50 * Scale), "none"),
      ZNumber(Fin(200 * Scale), PosInf, "none"),
      ZNumber(NegInf, Fin((0 - 5) * Scale), "none") }

ArrayNodes ==
    { ZArray(ZBoolean, <<>>),
      ZArray(ZBoolean, <<Check("min_length", 1), Check("max_length", 2)>>),
      ZArray(ZBoolean, <<Check("min_length", 2), Check("max_length", 2)>>),
      ZArray(ZBoolean, <<Check("min_length", 0)>>),
      ZArray(ZBoolean, <<Check("min_length", 2)>>),
      ZArray(ZBoolean, <<Check("max_length", 0)>>) }

SetNodes ==
    { ZSet(ZBoolean, <<>>),
      ZSet(ZBoolean, <<Check("min_size", 0), Check("max_size", 0)>>),
      ZSet(ZBoolean, <<Check("min_size", 2), Check("max_size", 2)>>),
      ZSet(ZBoolean, <<Check("min_size", 3), Check("max_size", 5)>>),
      ZSet(ZLiteral(Name2), <<Check("min_size", 2), Check("max_size", 3)>>),
      ZSet(VariantA, <<Check("min_size", 2), Check("max_size", 2)>>),
      ZSet(ZBoolean, <<Check("min_size", 6)>>) }

(* nodes that carry several checks of one kind, and date and big-integer  *)
(* nodes with one bound, both bounds and none                              *)
CheckedNodes ==
    { ZStringOf(<<Check("min_length", 3), Check("min_length", 6)>>),
      ZStringOf(<<Check("max_length", 9), Check("min_length", 6),
                  Check("max_length", 7)>>),
      ZNumberOf(<<Check("greater_than", 1 * Scale),
                  Check("greater_than", 3 * Scale),
                  Check("less_than", 5 * Scale)>>, "none"),
      ZNumberOf(<<Check("greater_than", 1 * Scale),
                  Check("less_than", 3 * Scale),
                  Check("less_than", 5 * Scale)>>, "float"),
      ZArray(ZBoolean, <<Check("min_length", 1), Check("min_length", 2),
                         Check("max_length", 2)>>),
      ZSet(ZBoolean, <<Check("min_size", 0), Check("max_size", 1),
                       Check("min_size", 1)>>),
      ZDate(<<Check("greater_than", 10), Check("greater_than", 12),
              Check("less_than", 14)>>),
      ZDate(<<Check("greater_than", 10), Check("greater_than", 12)>>),
      ZDate(<<Check("less_than", 10), Check("less_than", 8)>>),
      ZDate(<<>>),
      ZBigInt(<<Check("greater_than", 3), Check("greater_than", 5),
                Check("less_than", 7)>>),
      ZBigInt(<<Check("less_than", 4), Check("less_than", 2)>>),
      ZBigInt(<<Check("greater_than", 2000)>>),
      ZBigInt(<<>>) }

EffectsNodes ==
    { ZEffects(ZBoolean, Effect(EFFECT_TYPE_TRANSFORM, "not")),
      ZEffects(ZBoolean, Effect(EFFECT_TYPE_TRANSFORM, "lengthOfTrue")),
      ZEffects(ZBoolean, Effect(EFFECT_TYPE_TRANSFORM, "throws")),
      ZEffects(ZLiteral(Name2), Effect(EFFECT_TYPE_TRANSFORM, "not")),
      ZEffects(ZString(21, NullLen), Effect(EFFECT_TYPE_TRANSFORM, "not")),
      ZEffects(ZBoolean, Effect("refinement", "not")),
      ZEffects(ZBoolean, NoEffect) }

NodeSchemas ==
    StringNodes \cup NumberNodes \cup ArrayNodes \cup SetNodes
    \cup CheckedNodes \cup EffectsNodes
    \cup { ZPromise(ZBoolean), ZPromise(ZLiteral(Name2)) }
    \cup { ZLiteral(Name2), ZLiteral(IntV(0)), ZLiteral(Bool(FALSE)),
            ZDiscriminatedUnion("type", <<VariantA, VariantB>>),
            ZOptional(ZDiscriminatedUnion("type", <<VariantB, VariantA>>)),
            ComplexSchema("optional", 0),
            ComplexSchema("nullable", 0),
            ZLazy("optional", 0) }

InitNodes ==
    /\ instances = {"A"}
    /\ schema \in NodeSchemas
    /\ faker = [i \in Instances |-> DefaultFaker(i)]
    /\ rng \in [Sources -> Tapes]
    /\ \A s \in Sources \ {DefaultFaker("A")} : rng[s] = FakerSeed(<<0>>)
    /\ last = NoCall
    /\ seeded = [i \in Instances |-> <<>>]
    /\ pending = [i \in Instances |-> <<>>]
    /\ whole = TRUE
    /\ epoch = NoEpoch
    /\ drawn = NoDraw
    /\ normalized = NoBounds
    /\ stack = <<>>

(* one call of this.generateFromSchema(this.schema) on the active source *)
Draft(i) ==
    \E r \in {generateFromSchema(schema, rng[faker[i]])} :
        /\ drawn' = [node |-> schema, drew |-> TRUE,
                     before |-> rng[faker[i]],
                     v |-> r.v, err |-> r.err, after |-> r.rng]
        /\ rng' = [rng EXCEPT ![faker[i]] = r.rng]
        /\ UNCHANGED <<instances, schema, faker, last, seeded, pending,
                       whole, epoch, normalized, stack>>

NextNodes == \E i \in instances : Draft(i)

SpecNodes == InitNodes /\ [][NextNodes]_vars

(* generate step by step, so that a default producer, a lazy getter or a  *)
(* transform of the schema can call generate again on the same instance   *)
(* while a call is in progress. A frame of the stack holds what the call   *)
(* saved at its entry and, as a record of the run, the sources it drew     *)
(* from (drew), whether a call made inside it has exited (reentered) and   *)
(* the sources it drew from since (since).                                 *)
NestedFakers == InjectedFakers \cup {DefaultFaker("B")}

InitNested ==
    /\ InitCalls({"A"}, {ZDefault(ZBoolean, Fn(Bool(TRUE)))},
                 {FakerSeed(<<1>>)})
    /\ epoch = NoEpoch
    /\ drawn = NoDraw
    /\ normalized = NoBounds
    /\ stack = <<>>

(* const originalFaker = this.faker; if (overrides?.faker) { this.faker =  *)
(* overrides.faker }                                                       *)
Enter(i) ==
    \E f \in {"none"} \cup NestedFakers :
        /\ Len(stack) < MaxNest
        /\ stack' = Append(stack, [originalFaker |-> faker[i],
                                   injected |-> f, drew |-> {},
                                   reentered |-> FALSE, since |-> {}])
        /\ faker' = [faker EXCEPT
                        ![i] = activeFakerOf(@, Options(f, FALSE, Undefined))]
        /\ UNCHANGED <<instances, schema, rng, last, seeded, pending, whole,
                       epoch, drawn, normalized>>

(* one draw of the call in progress, on this.faker *)
DrawStep(i) ==
    /\ stack # <<>>
    /\ rng' = [rng EXCEPT ![faker[i]] = Advance(@)]
    /\ stack' = [stack EXCEPT
                    ![Len(stack)].drew = @ \cup {faker[i]},
                    ![Len(stack)].since =
                        IF stack[Len(stack)].reentered
                        THEN @ \cup {faker[i]} ELSE @]
    /\ UNCHANGED <<instances, schema, faker, last, seeded, pending, whole,
                   epoch, drawn, normalized>>

(* the innermost call returns or throws: finally { this.faker =           *)
(* originalFaker }                                                         *)
Exit(i) ==
    \E threw \in BOOLEAN :
        /\ stack # <<>>
        /\ faker' = [faker EXCEPT
                        ![i] = finallyFaker(stack[Len(stack)].originalFaker,
                                            @, threw)]
        /\ stack' = [k \in 1..(Len(stack) - 1) |->
                        IF k = Len(stack) - 1
                        THEN [stack[k] EXCEPT !.reentered = TRUE,
                                              !.since = {}]
                        ELSE stack[k]]
        /\ UNCHANGED <<instances, schema, rng, last, seeded, pending, whole,
                       epoch, drawn, normalized>>

NextNested == \E i \in instances : Enter(i) \/ DrawStep(i) \/ Exit(i)

SpecNested == InitNested /\ [][NextNested]_vars

(* getNormalizedBounds alone, on every pair of bounds and both samplers.   *)
BoundValues ==
    { NullB, PosInf, NegInf }
    \cup { Fin(n) : n \in { (0 - 5) * Scale, 0 - 1, 0, 1, Scale,
                            DEFAULT_FLOAT_MAX * Scale,
                            DEFAULT_INT_MAX * Scale + 1 } }

InitBounds ==
    /\ InitCalls({"A"}, {ZNumber(NegInf, PosInf, "none")}, {FakerSeed(<<1>>)})
    /\ rng[DefaultFaker("A")] = FakerSeed(<<0>>)
    /\ epoch = NoEpoch
    /\ drawn = NoDraw
    /\ normalized \in { [NoBounds EXCEPT !.minValue = lo, !.maxValue = hi,
                                         !.isFloat = f] :
                           lo \in BoundValues, hi \in BoundValues,
                           f \in BOOLEAN }
    /\ stack = <<>>

(* this.getNormalizedBounds(minValue, maxValue, isFloat) *)
Normalize ==
    /\ ~normalized.called
    /\ \E nb \in {getNormalizedBounds(normalized.minValue,
                                        normalized.maxValue,
                                        normalized.isFloat)} :
          normalized' = [normalized EXCEPT !.called = TRUE,
                                           !.min = nb.min, !.max = nb.max]
    /\ UNCHANGED <<instances, schema, faker, rng, last, seeded, pending,
                   whole, epoch, drawn, stack>>

NextBounds == Normalize

SpecBounds == InitBounds /\ [][NextBounds]_vars

(* ------------------------------ claims --------------------------------- *)
ShapeKeys(shape) == { shape[i].key : i \in 1..Len(shape) }
SchemaOf(shape, k) ==
    shape[CHOOSE i \in 1..Len(shape) : shape[i].key = k].schema

IsGenerate == last.op = "generate"
OverridesGiven == last.options.given /\ last.options.hasOverrides

(* C1: after every call, returned or thrown, this.faker of every instance  *)
(* is its default source again; an injected source was active only during  *)
(* the call it was passed to.                                              *)
C1_FakerRestored == \A i \in instances : faker[i] = DefaultFaker(i)

C1_Witness ==
    /\ IsGenerate
    /\ last.active \in InjectedFakers
    /\ last.out = "throw"
    /\ last.err = "FakerError"
    /\ faker[last.inst] = DefaultFaker(last.inst)

(* C2: on a schema of a supported leaf kind, generate() without            *)
(* overrides returns, and returns a value that passes the schema's own     *)
(* validation, for every outcome of the draws.                             *)
LeafKinds ==
    {"ZodString", "ZodNumber", "ZodBoolean", "ZodNull", "ZodVoid",
     "ZodLiteral", "ZodEnum"}

C2_GenerateTotal ==
    (IsGenerate /\ ~OverridesGiven /\ schema \in SupportedSchemas
       /\ schema.kind \in LeafKinds)
        => (last.out = "return" /\ parse(schema, last.value).ok)

C5_OverrideReplacesDraft ==
    (IsGenerate /\ last.drafted /\ OverridesGiven /\ ~isPlainObject(last.draft))
        => /\ last.candidate = last.options.overrides
           /\ LET r == parse(schema, last.options.overrides)
              IN  IF r.ok THEN last.out = "return" /\ last.value = r.v
                  ELSE last.out = "throw"

C5_Witness ==
    /\ IsGenerate
    /\ schema = ZOptional(ZString(1, 2))
    /\ last.options = Options("none", TRUE, Undefined)
    /\ last.draft.t = "string"
    /\ last.out = "return"
    /\ last.value = Undefined

ObjectRoundTrip ==
    /\ IsGenerate /\ last.out = "return" /\ OverridesGiven
    /\ schema.kind = "ZodObject"
    /\ last.options.overrides.t = "object"

(* C6, as claimed: on an object-root schema, every field of a shallow      *)
(* override comes back as it was given.                                    *)
C6_RoundTripEveryField ==
    ObjectRoundTrip
        => \A k \in (DOMAIN last.options.overrides.f) \cap ShapeKeys(schema.shape) :
              /\ k \in DOMAIN last.value.f
              /\ last.value.f[k] = last.options.overrides.f[k]

(* C6, amended: every field of a shallow override holds what validation    *)
(* returns for the override's value, which is that value unless it is      *)
(* undefined (a default-valued field then holds its default); every other  *)
(* field holds the generated value, valid for its field schema.            *)
C6_RoundTripValidated ==
    ObjectRoundTrip
        => \A k \in ShapeKeys(schema.shape) :
              IF k \in DOMAIN last.options.overrides.f
              THEN LET x == last.options.overrides.f[k]
                   IN  /\ k \in DOMAIN last.value.f
                       /\ last.value.f[k] = parse(SchemaOf(schema.shape, k), x).v
                       /\ x # Undefined => last.value.f[k] = x
              ELSE /\ k \in DOMAIN last.value.f
                   /\ last.value.f[k] = last.draft.f[k]
                   /\ parse(SchemaOf(schema.shape, k), last.value.f[k]).ok

C6_Witness ==
    /\ ObjectRoundTrip
    /\ last.options.overrides = Obj([name |-> Str(1, 8), age |-> IntV(19)])
    /\ last.value.f["name"] = Str(1, 8)
    /\ last.value.f["status"] = Active

(* C7: a candidate built from the overrides that fails validation makes    *)
(* generate throw the validation error; no value is returned.              *)
C7_InvalidOverrideThrows ==
    (IsGenerate /\ last.drafted /\ OverridesGiven /\ hasMetadata(schema)
       /\ ~parse(schema, last.candidate).ok)
        => /\ last.out = "throw"
           /\ last.err = "ZodError"
           /\ last.value = Undefined

C7_Witness ==
    /\ IsGenerate /\ last.drafted /\ OverridesGiven
    /\ schema.kind = "ZodObject"
    /\ last.candidate.t = "object"
    /\ last.candidate.f["age"] = IntV(99)
    /\ last.out = "throw"
    /\ last.err = "ZodError"

ManyReturned == last.op = "generateMany" /\ last.out = "return"

ItemsOverridden(exact) ==
    \A n \in 1..Len(last.value.items) :
        LET item == last.value.items[n]
            x == last.options.overrides
        IN  IF ~OverridesGiven THEN TRUE
            ELSE IF schema.kind = "ZodObject" /\ x.t = "object"
            THEN \A k \in (DOMAIN x.f) \cap ShapeKeys(schema.shape) :
                    /\ k \in DOMAIN item.f
                    /\ item.f[k] = IF exact THEN x.f[k]
                                   ELSE parse(SchemaOf(schema.shape, k), x.f[k]).v
                    /\ x.f[k] # Undefined => item.f[k] = x.f[k]
            ELSE schema.kind \in {"ZodString", "ZodNumber", "ZodBoolean"}
                    => item = x

C9_UnsupportedThrows ==
    (IsGenerate /\ ~OverridesGiven /\ schema \in UnsupportedSchemas)
        => /\ last.out = "throw"
           /\ last.err = "Unsupported Zod type"

RECURSIVE DefaultsKept(_, _, _)
DefaultsKept(node, v, tagged) ==
    IF node.meta \in BrazilianFormats
    THEN tagged \/ node.kind # "ZodDefault"
    ELSE IF node.kind = "ZodDefault"
    THEN v = (IF node.defaultValue.t = "function"
              THEN node.defaultValue.returns ELSE node.defaultValue)
    ELSE IF node.kind \in {"ZodOptional", "ZodNullable"}
    THEN DefaultsKept(node.innerType, v, tagged)
    ELSE IF node.kind = "ZodArray"
    THEN \A n \in 1..Len(v.items) : DefaultsKept(node.element, v.items[n], tagged)
    ELSE IF node.kind = "ZodObject"
    THEN \A n \in 1..Len(node.shape) :
            DefaultsKept(node.shape[n].schema, v.f[node.shape[n].key], tagged)
    ELSE TRUE

C11_Step ==
    LET i == last'.inst
        d == DefaultFaker(i)
    IN  /\ (last'.op = "generate" /\ last'.options.faker \in InjectedFakers)
              => /\ last'.active = last'.options.faker
                 /\ \A s \in Sources \ {last'.options.faker} : rng'[s] = rng[s]
                 /\ \A t \in SeedTapes :
                       LET g == generate(schema, faker[i],
                                         [rng EXCEPT ![d] = t], last'.options)
                       IN  /\ g.out = last'.out
                           /\ g.value = last'.value
                           /\ g.err = last'.err
                           /\ g.rng[last'.options.faker]
                                 = rng'[last'.options.faker]
        /\ (last'.op \in {"generate", "generateMany"}
              /\ last'.options.faker = "none")
              => /\ \A f \in InjectedFakers : rng'[f] = rng[f]
                 /\ last'.op = "generate" => last'.active = d

SeedForm(seedArg) == IF seedArg.isArray THEN seedArg.a ELSE <<seedArg.n>>

RECURSIVE KthCall(_, _)
KthCall(tape, k) ==
    LET g == generate(schema, DefaultFaker("A"), [s \in Sources |-> tape],
                      NoOptions)
    IN  IF k <= 1 THEN g ELSE KthCall(g.rng[DefaultFaker("A")], k - 1)

Drew(kind) == drawn.drew /\ drawn.node.kind = kind

(* C13: the value generated for a discriminated union is the value         *)
(* generated from one of its variants: its discriminant is that variant's  *)
(* tag, its fields are exactly that variant's fields, each valid for the   *)
(* variant's field schema; never a mix of two variants.                    *)
UnionOf(node) == IF node.kind = "ZodOptional" THEN node.innerType ELSE node

C13_OneVariant ==
    (drawn.drew /\ UnionOf(drawn.node).kind = "ZodDiscriminatedUnion"
       /\ drawn.err = "none")
        => LET union == UnionOf(drawn.node)
               tag(n) == SchemaOf(union.options[n].shape,
                                  union.discriminator).value
           IN  /\ drawn.v.t = "object"
               /\ union.discriminator \in DOMAIN drawn.v.f
               /\ \E n \in 1..Len(union.options) :
                     drawn.v.f[union.discriminator] = tag(n)
               /\ \E n \in 1..Len(union.options) :
                     LET variant == union.options[n]
                     IN  /\ drawn.v.f[union.discriminator] = tag(n)
                         /\ DOMAIN drawn.v.f = ShapeKeys(variant.shape)
                         /\ \A k \in ShapeKeys(variant.shape) :
                               parse(SchemaOf(variant.shape, k),
                                     drawn.v.f[k]).ok
                         /\ drawn.v =
                               generateFromSchema(variant,
                                                  Advance(drawn.before)).v

C13_Witness ==
    /\ Drew("ZodDiscriminatedUnion")
    /\ drawn.err = "none"
    /\ drawn.v.f["type"] = Str(1, 2)
    /\ DOMAIN drawn.v.f = {"type", "value", "flag"}
    /\ drawn.v.f["value"].t = "number"

(* C14: the number generated for a number node is not below the declared   *)
(* minimum and not above the declared maximum, for both, one or no bound   *)
(* declared.                                                               *)
C14_NumberInBounds ==
    (Drew("ZodNumber") /\ drawn.err = "none")
        => /\ drawn.v.t = "number"
           /\ InBound(drawn.v.n, drawn.node.minValue, TRUE)
           /\ InBound(drawn.v.n, drawn.node.maxValue, FALSE)

(* C15: generation for a string node without a format tag succeeds, and    *)
(* the length is within the declared bounds, 5 and 20 standing in for an   *)
(* absent bound; min = max = n gives length n.                             *)
C15_StringLengthInBounds ==
    (Drew("ZodString") /\ drawn.node.meta \notin BrazilianFormats)
        => LET min == IF drawn.node.minLength = NullLen
                      THEN DEFAULT_STRING_MIN_LENGTH ELSE drawn.node.minLength
               max == IF drawn.node.maxLength = NullLen
                      THEN DEFAULT_STRING_MAX_LENGTH ELSE drawn.node.maxLength
           IN  /\ drawn.err = "none"
               /\ drawn.v.t = "string"
               /\ min <= drawn.v.len
               /\ drawn.v.len <= max

(* C16: generation for an array node succeeds, and the length is within    *)
(* the declared bounds, 1 standing in for an absent bound (exactly 1 when   *)
(* none is declared); every element is a value of the element node.        *)
C16_ArrayLengthInBounds ==
    Drew("ZodArray")
        => LET min == CheckValueOr(drawn.node.checks, "min_length",
                                   DEFAULT_ARRAY_MIN_LENGTH)
               max == CheckValueOr(drawn.node.checks, "max_length",
                                   DEFAULT_ARRAY_MAX_LENGTH)
           IN  /\ drawn.err = "none"
               /\ drawn.v.t = "array"
               /\ min <= Len(drawn.v.items)
               /\ Len(drawn.v.items) <= max
               /\ drawn.node.checks = <<>> => Len(drawn.v.items) = 1
               /\ \A n \in 1..Len(drawn.v.items) :
                     parse(drawn.node.element, drawn.v.items[n]).ok

(* C17: the set generated for a set node has between min_size and max_size *)
(* elements, 1 and 5 standing in for an absent bound, whatever the element *)
(* node and the draws are.                                                 *)
C17_SetSizeInBounds ==
    (Drew("ZodSet") /\ drawn.err = "none")
        => LET min == CheckValueOr(drawn.node.checks, "min_size",
                                   DEFAULT_SET_MIN_SIZE)
               max == CheckValueOr(drawn.node.checks, "max_size",
                                   DEFAULT_SET_MAX_SIZE)
           IN  /\ drawn.v.t = "set"
               /\ min <= Len(drawn.v.items)
               /\ Len(drawn.v.items) <= max

(* C18: generate({ overrides: undefined }) returns a valid instance        *)
(* whenever generate() does: the draft, validated.                         *)
C18_UndefinedOverridesIgnored ==
    (IsGenerate /\ last.drafted /\ hasMetadata(schema)
       /\ last.options.faker = "none"
       /\ last.options.hasOverrides /\ last.options.overrides = Undefined
       /\ parse(schema, last.draft).ok)
        => /\ last.out = "return"
           /\ last.value = parse(schema, last.draft).v
           /\ parse(schema, last.value).ok

HasLazy(node) ==
    \/ node.kind = "ZodLazy"
    \/ /\ node.kind = "ZodObject"
       /\ \E n \in 1..Len(node.shape) : node.shape[n].schema.kind = "ZodLazy"

C20_LazyTerminates ==
    (drawn.drew /\ HasLazy(drawn.node))
        => /\ drawn.err = "none"
           /\ parse(drawn.node, drawn.v).ok

(* C21: the bounds getNormalizedBounds returns are ordered, min <= max; an *)
(* absent or infinite bound was replaced by the default of the sampler    *)
(* kind (1 and 1000 for integers, 0 and 100 for floats), a finite bound    *)
(* was kept, and the two were swapped exactly when min > max after that.   *)
C21_NormalizedOrdered ==
    normalized.called
        => LET isDefault(b) == b.b \in {"null", "inf", "-inf"}
               lo == IF isDefault(normalized.minValue)
                     THEN (IF normalized.isFloat THEN 0 ELSE 1 * Scale)
                     ELSE normalized.minValue.n
               hi == IF isDefault(normalized.maxValue)
                     THEN (IF normalized.isFloat THEN 100 * Scale
                           ELSE 1000 * Scale)
                     ELSE normalized.maxValue.n
           IN  /\ normalized.min <= normalized.max
               /\ lo <= hi => normalized.min = lo /\ normalized.max = hi
               /\ lo > hi => normalized.min = hi /\ normalized.max = lo

C21_Witness ==
    /\ normalized.called
    /\ normalized.minValue = Fin(DEFAULT_INT_MAX * Scale + 1)
    /\ normalized.maxValue = PosInf
    /\ ~normalized.isFloat
    /\ normalized.min = DEFAULT_INT_MAX * Scale
    /\ normalized.max = DEFAULT_INT_MAX * Scale + 1

(* C22: a number node is sampled with the float sampler exactly when it    *)
(* carries a float-family format tag or a declared (finite) bound that is  *)
(* not an integer; with only integer or absent bounds and no float format  *)
(* it is sampled with the integer sampler and the value is an integer.     *)
C22_FloatIntent ==
    Drew("ZodNumber")
        => LET declared(b) == b.b = "fin"
               fractional(b) == declared(b) /\ b.n % Scale # 0
               floatIntent == \/ drawn.node.format \in FLOAT_FORMATS
                              \/ fractional(drawn.node.minValue)
                              \/ fractional(drawn.node.maxValue)
               nb == getNormalizedBounds(drawn.node.minValue,
                                         drawn.node.maxValue, floatIntent)
               sampled == IF floatIntent
                          THEN FakerFloat(nb.min, nb.max, drawn.before)
                          ELSE FakerInt(nb.min \div Scale, nb.max \div Scale,
                                        drawn.before)
           IN  /\ drawn.err = sampled.err
               /\ drawn.err = "none"
                    => /\ drawn.v = (IF floatIntent THEN Num(sampled.v)
                                     ELSE IntV(sampled.v))
                       /\ ~floatIntent => drawn.v.n % Scale = 0

(* C23: set generation always ends with a set: the target size is picked   *)
(* in the normalised (ordered) bounds, the set never has more elements     *)
(* than the target, a smaller set is returned when duplicates collide, and *)
(* for a target of 0 no element is generated and the set is empty.         *)
C23_SetTerminates ==
    Drew("ZodSet")
        => LET lo == CheckValueOr(drawn.node.checks, "min_size",
                                  DEFAULT_SET_MIN_SIZE)
               hi == CheckValueOr(drawn.node.checks, "max_size",
                                  DEFAULT_SET_MAX_SIZE)
               min == IF lo > hi THEN hi ELSE lo
               max == IF lo > hi THEN lo ELSE hi
               target == FakerInt(min, max, drawn.before)
           IN  /\ drawn.err = "none"
               /\ drawn.v.t = "set"
               /\ Len(drawn.v.items) <= target.v
               /\ target.v = 0
                    => drawn.v.items = <<>> /\ drawn.after = target.rng

(* the first check of a kind, and the tightest one, as a list of 0 or 1 *)
FirstOf(checks, name) ==
    LET S == { i \in 1..Len(checks) : checks[i].check = name }
    IN  IF S = {} THEN <<>>
        ELSE <<checks[CHOOSE i \in S : \A j \in S : i <= j]>>

TightestOf(checks, name, isMinimum) ==
    LET S == { i \in 1..Len(checks) : checks[i].check = name }
    IN  IF S = {} THEN <<>>
        ELSE <<checks[CHOOSE i \in S : \A j \in S :
                         IF isMinimum THEN checks[i].value >= checks[j].value
                         ELSE checks[i].value <= checks[j].value]>>

SeveralOfAKind(node) ==
    /\ "checks" \in DOMAIN node
    /\ \E i, j \in 1..Len(node.checks) :
          i < j /\ node.checks[i].check = node.checks[j].check

(* the node with only the first check of each kind kept *)
FirstNode(node) ==
    LET first(name) == FirstOf(node.checks, name)
    IN  IF node.kind = "ZodString"
        THEN ZStringOf(first("min_length") \o first("max_length"))
        ELSE IF node.kind = "ZodNumber"
        THEN ZNumberOf(first("greater_than") \o first("less_than"),
                       node.format)
        ELSE IF node.kind = "ZodArray"
        THEN ZArray(node.element, first("min_length") \o first("max_length"))
        ELSE IF node.kind = "ZodSet"
        THEN ZSet(node.valueType, first("min_size") \o first("max_size"))
        ELSE [node EXCEPT !.checks =
                  first("greater_than") \o first("less_than")]

(* the same, with the tightest check kept for a string or number node *)
UsedNode(node) ==
    LET tightest(name, isMinimum) == TightestOf(node.checks, name, isMinimum)
    IN  IF node.kind = "ZodString"
        THEN ZStringOf(tightest("min_length", TRUE)
                       \o tightest("max_length", FALSE))
        ELSE IF node.kind = "ZodNumber"
        THEN ZNumberOf(tightest("greater_than", TRUE)
                       \o tightest("less_than", FALSE), node.format)
        ELSE FirstNode(node)

SameAsFor(node) ==
    LET r == generateFromSchema(node, drawn.before)
    IN  drawn.v = r.v /\ drawn.err = r.err /\ drawn.after = r.rng

(* C24 as stated: with several constraints of one kind in the list, the   *)
(* value generated is the one generated from the first constraint of each *)
(* kind alone, for string, number, array, set, date and big-integer nodes. *)
C24_FirstMatch ==
    (drawn.drew /\ SeveralOfAKind(drawn.node))
        => SameAsFor(FirstNode(drawn.node))

(* C24 amended: for array, set, date and big-integer nodes the value is    *)
(* the one generated from the first constraint of each kind alone; for     *)
(* string and number nodes it is the one generated from the tightest       *)
(* constraint of each kind (the largest minimum, the smallest maximum).    *)
C24_FirstOrTightest ==
    (drawn.drew /\ SeveralOfAKind(drawn.node))
        => SameAsFor(UsedNode(drawn.node))

C24_Witness ==
    /\ Drew("ZodArray")
    /\ SeveralOfAKind(drawn.node)
    /\ FirstOf(drawn.node.checks, "min_length")[1].value = 1
    /\ drawn.err = "none"
    /\ Len(drawn.v.items) = 1

(* what n consecutive calls generate(options) on instance i give, each    *)
(* starting where the one before left the sources                          *)
RECURSIVE ConsecutiveCalls(_, _, _)
ConsecutiveCalls(i, options, n) ==
    IF n = 0 THEN <<>>
    ELSE LET before == ConsecutiveCalls(i, options, n - 1)
             thisFaker == IF before = <<>> THEN faker[i]
                          ELSE before[Len(before)].faker
             streams == IF before = <<>> THEN rng
                        ELSE before[Len(before)].rng
         IN  Append(before, generate(schema, thisFaker, streams, options))

(* C25: generateMany(n, opts) does what n consecutive generate(opts) calls *)
(* do from the same streams: it returns their values in their order and    *)
(* leaves the streams where the last call leaves them; when one of the     *)
(* calls throws, it throws that error at that call.                        *)
C25_Step ==
    last'.op = "generateMany"
        => \E calls \in {ConsecutiveCalls(last'.inst, last'.options,
                                          last'.count)} :
             LET thrown == { k \in 1..Len(calls) : calls[k].out = "throw" }
                 stop == IF thrown = {} THEN Len(calls)
                         ELSE CHOOSE k \in thrown : \A m \in thrown : k <= m
             IN  /\ last'.out = (IF thrown = {} THEN "return" ELSE "throw")
                 /\ thrown = {}
                      => last'.value = Arr([k \in 1..Len(calls) |->
                                               calls[k].value])
                 /\ thrown # {} => last'.err = calls[stop].err
                 /\ rng' = (IF stop = 0 THEN rng ELSE calls[stop].rng)
                 /\ faker'[last'.inst]
                      = (IF stop = 0 THEN faker[last'.inst]
                         ELSE calls[stop].faker)

IsEffects(node) == "typeName" \in DOMAIN node

(* C26: for an effects node whose effect is a transform, generation gives  *)
(* what the transform returns for the value generated from the inner node; *)
(* when the transform throws, generation does not fail and gives the inner *)
(* value itself. Only a failure of the inner generation is a failure.      *)
C26_TransformOrFallback ==
    (drawn.drew /\ IsEffects(drawn.node)
       /\ drawn.node.effect.type = "transform")
        => LET inner == generateFromSchema(drawn.node.schema, drawn.before)
               called == CallTransform(drawn.node.effect.transform, inner.v)
           IN  /\ drawn.err = inner.err
               /\ drawn.after = inner.rng
               /\ (inner.err = "none" /\ ~called.threw) => drawn.v = called.v
               /\ (inner.err = "none" /\ called.threw) => drawn.v = inner.v

C26_Witness ==
    /\ drawn.drew /\ IsEffects(drawn.node)
    /\ drawn.node.effect = Effect("transform", "lengthOfTrue")
    /\ drawn.err = "none"
    /\ drawn.v = Bool(FALSE)

(* C27: the draft generated for a promise node is a resolved promise that  *)
(* holds a value generated from the inner node, not that value itself.     *)
C27_PromiseWrapped ==
    (Drew("ZodPromise") /\ drawn.err = "none")
        => /\ drawn.v.t = "promise"
           /\ drawn.v.state = "resolved"
           /\ drawn.v.value
                = generateFromSchema(drawn.node.innerType, drawn.before).v

(* C28: a generate call that is given overrides, even one whose override   *)
(* replaces the draft as a whole, advances the stream of the active source *)
(* by the draws of the draft of the schema; so after seed(s) the stream    *)
(* after k calls is the stream after k calls without overrides, and the    *)
(* next generate() returns the value of call k + 1, not of call k.         *)
C28_Step ==
    (last'.op = "generate" /\ last'.options.hasOverrides)
        => LET i == last'.inst
               active == IF last'.options.faker # "none"
                         THEN last'.options.faker ELSE faker[i]
               draft == generateFromSchema(schema, rng[active])
           IN  /\ rng' = [rng EXCEPT ![active] = draft.rng]
               /\ (epoch'.counted /\ epoch'.calls >= 1
                     /\ last'.options.faker = "none")
                    => rng'[DefaultFaker(i)]
                        = KthCall(FakerSeed(SeedForm(epoch'.seedArg)),
                                  epoch'.calls).rng[DefaultFaker(i)]

C28_DraftAlwaysBuilt == [][C28_Step]_vars

C28_Witness ==
    /\ IsGenerate
    /\ last.options = Options("none", TRUE, Arr(<<Bool(TRUE)>>))
    /\ schema.kind = "ZodArray"
    /\ last.out = "return"
    /\ last.value = Arr(<<Bool(TRUE)>>)
    /\ epoch.counted
    /\ epoch.calls = 1
    /\ rng[DefaultFaker("A")] # FakerSeed(SeedForm(epoch.seedArg))
    /\ KthCall(FakerSeed(SeedForm(epoch.seedArg)), 2).value
         # KthCall(FakerSeed(SeedForm(epoch.seedArg)), 1).value

(* the source the k-th call in progress of instance i draws from: the one  *)
(* injected into it or, with none injected, the one of the call around it, *)
(* the default source around the outermost call                            *)
RECURSIVE OwnSource(_, _)
OwnSource(i, k) ==
    IF k = 0 THEN DefaultFaker(i)
    ELSE IF stack[k].injected # "none" THEN stack[k].injected
    ELSE OwnSource(i, k - 1)

(* C29: with generate calls nested on one instance, the active source is   *)
(* always that of the innermost call in progress: every call has drawn     *)
(* from its own source only, also after a call inside it has exited, and   *)
(* with no call in progress the default source is active.                  *)
C29_NestedRestores ==
    \A i \in instances :
        /\ faker[i] = OwnSource(i, Len(stack))
        /\ \A k \in 1..Len(stack) : stack[k].drew \subseteq {OwnSource(i, k)}

C29_Witness ==
    /\ Len(stack) = 1
    /\ stack[1].injected = "F"
    /\ stack[1].reentered
    /\ stack[1].since = {"F"}
    /\ faker["A"] = "F"

(* what the instances other than the caller of the step would produce for *)
(* a call with the given options is the same before and after the step     *)
OthersUnchanged(optionSet) ==
    \A j \in instances \ {last'.inst} :
        \A options \in optionSet :
            \E before \in {generate(schema, faker[j], rng, options)},
               after \in {generate(schema, faker'[j], rng', options)} :
                /\ after.out = before.out
                /\ after.value = before.value
                /\ after.err = before.err

(* C30 as stated: a seed, generate or generateMany call on one instance    *)
(* changes the value of no call of the other instance, whatever the        *)
(* options of the two calls are.                                           *)
C30_StepAny == OthersUnchanged(PairOptionSet)

C30_NoCallChangesOthers == [][C30_StepAny]_vars

(* C30 amended: a seed, generate or generateMany call on one instance      *)
(* leaves the default source of the other instance and its stream as they  *)
(* are, and changes the value of no call of the other instance that draws  *)
(* from its default source.                                                *)
C30_StepOwn ==
    /\ \A j \in instances \ {last'.inst} :
          /\ faker'[j] = faker[j]
          /\ faker[j] = DefaultFaker(j)
          /\ rng'[DefaultFaker(j)] = rng[DefaultFaker(j)]
    /\ OthersUnchanged({ o \in PairOptionSet : o.faker = "none" })

C30_OwnDefaultSource == [][C30_StepOwn]_vars

C30_Witness ==
    /\ instances = Instances
    /\ last.inst = "A"
    /\ last.op = "generateMany"
    /\ last.out = "return"
    /\ faker["B"] = DefaultFaker("B")
    /\ seeded["A"] # <<>>
    /\ seeded["B"] = seeded["A"]
    /\ rng[DefaultFaker("B")] = FakerSeed(seeded["B"])
    /\ rng[DefaultFaker("A")] # FakerSeed(seeded["A"])

====
